---- MODULE Spec2Model ----
(***************************************************************************)
(* Model of overlays/otel-demo-python/app-otel-demo-python.py: a Flask     *)
(* application with five routes, a JSON log formatter that enriches log    *)
(* lines with the current span's identifiers, and before/after request     *)
(* hooks that record a counter and a histogram observation per request.    *)
(*                                                                         *)
(* Flask, the logging package and the OpenTelemetry API are libraries the  *)
(* program calls; the model states the part of their behaviour the         *)
(* program relies on next to the line of the program that relies on it.    *)
(***************************************************************************)
EXTENDS Integers, Sequences, FiniteSets, TLC

\* ------------------------------------------------------------- bounds
MaxReq == 2          \* requests the host server receives
Workers == 2         \* threads the host server handles requests on
MaxTime == 2         \* the clock runs 0..MaxTime (seconds since startup)
RandDenom == 2       \* random.random() draws k/RandDenom, k in 0..RandDenom-1

Requests == 1..MaxReq
WorkerIds == 1..Workers
MainThread == 0
Threads == 0..Workers
NoRequest == 0
NoTime == -1

\* ------------------------------------------------------------ integers
\* Python integers are unbounded; a trace id has 128 bits. A natural number
\* is kept as its base-65536 limbs, most significant first, without leading
\* zero limbs (0 is the empty sequence).
RECURSIVE DigitsOf(_)
DigitsOf(k) == IF k < 16 THEN <<k>> ELSE Append(DigitsOf(k \div 16), k % 16)

RECURSIVE ZeroFill(_, _)
ZeroFill(ds, width) == IF Len(ds) >= width THEN ds ELSE ZeroFill(<<0>> \o ds, width)

RECURSIVE LimbDigits(_)
LimbDigits(limbs) ==
    IF limbs = <<>> THEN <<>>
    ELSE ZeroFill(DigitsOf(Head(limbs)), 4) \o LimbDigits(Tail(limbs))

\* the hexadecimal digits of a natural number, no leading zeros ("0" for 0)
HexDigitsOf(n) ==
    IF n = <<>> THEN <<0>> ELSE DigitsOf(Head(n)) \o LimbDigits(Tail(n))

LowerHex == <<"0","1","2","3","4","5","6","7","8","9","a","b","c","d","e","f">>

\* format(n, '0<width>x'): lowercase hex, zero-padded on the left to at
\* least width characters (never truncated)
format(n, width) ==
    LET ds == ZeroFill(HexDigitsOf(n), width)
    IN  [i \in 1..Len(ds) |-> LowerHex[ds[i] + 1]]

\* ------------------------------------------------------- span contexts
MaxTraceId == [i \in 1..8 |-> 65535]
MaxSpanId == [i \in 1..4 |-> 65535]
ValidTraceIds == { <<171, 0, 4660>>, MaxTraceId }
ValidSpanIds == { <<1>>, MaxSpanId }
\* the contexts the host gives its server spans
ServerContexts == { [trace_id |-> <<171, 0, 4660>>, span_id |-> MaxSpanId],
                    [trace_id |-> MaxTraceId, span_id |-> <<1>>] }

\* SpanContext.is_valid of the OpenTelemetry API
is_valid(ctx) == ctx.trace_id # <<>> /\ ctx.span_id # <<>>

INVALID_SPAN == [kind |-> "INVALID_SPAN", ctx |-> [trace_id |-> <<>>, span_id |-> <<>>]]

VARIABLES
    scenario,     \* which family of runs is explored (see Init)
    now,          \* the wall clock, time.time()
    started,      \* the __main__ block has run and the server accepts requests
    sdk,          \* a tracer provider is configured (else the API's no-op tracer)
    instrumented, \* the host wraps each request in a server span
    pc,           \* pc[r]: where request r is in its lifecycle
    method,       \* request.method
    path,         \* request.path
    worker,       \* the thread that handles request r (0: none)
    cv_request,   \* cv_request[w]: the request bound to thread w's context
    cv_span,      \* cv_span[w]: the spans made current in thread w's context
    start_time,   \* start_time[r]: the attribute start_time of request object r
    response,     \* the response object of request r
    returned,     \* what the client of request r received
    sleepUntil,   \* when the time.sleep of request r ends
    logs,         \* logs[r]: the lines written to the log stream on behalf of r
    logCalls,     \* logCalls[r]: logger calls made on behalf of r
    counterObs,   \* request_counter.add calls made on behalf of r
    histObs,      \* request_duration.record calls made on behalf of r
    spanOps,      \* calls on span objects made on behalf of r
    events,       \* the lifecycle steps of request r, in order
    hist          \* hist[r]: what happened to request r that no program
                  \* variable keeps (times and counts of the start_time
                  \* accesses, faults, the current spans at two points)

vars == <<scenario, now, started, sdk, instrumented, pc, method, path, worker, cv_request,
          cv_span, start_time, response, returned, sleepUntil, logs, logCalls,
          counterObs, histObs, spanOps, events, hist>>

Methods == {"GET", "HEAD", "OPTIONS", "POST"}
Routes == {"/", "/api/data", "/api/slow", "/api/error", "/health"}
Paths == Routes \cup {"/missing"}

NoResponse == [status |-> 0]
NoHist == [preAt |-> NoTime, postAt |-> NoTime, writes |-> 0, reads |-> 0,
           unsetRead |-> FALSE, unhandled |-> FALSE, entrySpans |-> <<>>,
           postSpans |-> <<>>]

\* Two families of runs are explored. In "single" one request is served and
\* every input is drawn from its full set (methods, ids, random draws, a
\* failing log call). In "concurrent" MaxReq requests are served at the same
\* time, GET requests whose other inputs are the first of each set.
Scenarios == {"single", "concurrent"}
ReqLimit == IF scenario = "single" THEN 1 ELSE MaxReq
MethodInputs == IF scenario = "single" THEN Methods ELSE {"GET"}
FailInputs == IF scenario = "single" THEN BOOLEAN ELSE {FALSE}
ServerContextInputs ==
    IF scenario = "single" THEN ServerContexts
    ELSE {[trace_id |-> <<171, 0, 4660>>, span_id |-> MaxSpanId]}
TraceIdInputs == IF scenario = "single" THEN ValidTraceIds ELSE {MaxTraceId}
SpanIdInputs == IF scenario = "single" THEN ValidSpanIds ELSE {<<1>>}
DrawInputs ==
    IF scenario = "single" THEN [1..3 -> 0..(RandDenom - 1)] ELSE {[j \in 1..3 |-> 0]}

Init ==
    /\ scenario \in Scenarios
    /\ now = 0
    /\ started = FALSE
    /\ sdk \in BOOLEAN
    /\ instrumented \in BOOLEAN
    /\ instrumented => sdk
    /\ pc = [r \in Requests |-> "idle"]
    /\ method = [r \in Requests |-> "GET"]
    /\ path = [r \in Requests |-> "/"]
    /\ worker = [r \in Requests |-> 0]
    /\ cv_request = [w \in Threads |-> NoRequest]
    /\ cv_span = [w \in Threads |-> <<>>]
    /\ start_time = [r \in Requests |-> NoTime]
    /\ response = [r \in Requests |-> NoResponse]
    /\ returned = [r \in Requests |-> NoResponse]
    /\ sleepUntil = [r \in Requests |-> NoTime]
    /\ logs = [r \in 0..MaxReq |-> <<>>]
    /\ logCalls = [r \in 0..MaxReq |-> 0]
    /\ counterObs = [r \in Requests |-> <<>>]
    /\ histObs = [r \in Requests |-> <<>>]
    /\ spanOps = [r \in Requests |-> <<>>]
    /\ events = [r \in Requests |-> <<>>]
    /\ hist = [r \in Requests |-> NoHist]


\* ------------------------------------------------- context-local lookups
\* trace.get_current_span(): the span current in the calling thread's
\* context, INVALID_SPAN when there is none
get_current_span(w) ==
    IF cv_span[w] = <<>> THEN INVALID_SPAN ELSE cv_span[w][Len(cv_span[w])]

\* (mutant of request) one request slot shared by all threads, as a
\* module-level global would be
request_shared(w) ==
    cv_request[CHOOSE v \in WorkerIds :
                  /\ cv_request[v] # NoRequest
                  /\ \A u \in WorkerIds : cv_request[u] # NoRequest => v <= u]

\* flask.request: the proxy resolves to the request bound to the calling
\* thread's context
request(w) == cv_request[w]

\* ---------------------------------------------------------- JSON logging
lower(levelname) ==
    CASE levelname = "INFO" -> "info"
      [] levelname = "WARNING" -> "warning"
      [] levelname = "ERROR" -> "error"

levelno(levelname) ==
    CASE levelname = "INFO" -> 20
      [] levelname = "WARNING" -> 30
      [] levelname = "ERROR" -> 40

\* logger.setLevel(logging.INFO)
logger_level == 20

logger_name == "__main__"

\* (mutant of JSONFormatter_format) the identifiers are added without asking
\* whether the span context is valid
JSONFormatter_format_unchecked(levelname, message, w) ==
    LET ctx == get_current_span(w).ctx
    IN  << <<"timestamp", now>>,
           <<"level", lower(levelname)>>,
           <<"message", message>>,
           <<"logger", logger_name>>,
           <<"trace.id", format(ctx.trace_id, 32)>>,
           <<"span.id", format(ctx.span_id, 16)>> >>

\* JSONFormatter.format: the members of the JSON object, in insertion order
JSONFormatter_format(levelname, message, w) ==
    LET log_data == << <<"timestamp", now>>,
                       <<"level", lower(levelname)>>,
                       <<"message", message>>,
                       <<"logger", logger_name>> >>
        span == get_current_span(w)
        ctx == span.ctx
    IN  IF is_valid(ctx)
        THEN log_data \o << <<"trace.id", format(ctx.trace_id, 32)>>,
                            <<"span.id", format(ctx.span_id, 16)>> >>
        ELSE log_data

\* logger.info / warning / error through the StreamHandler: the lines of the
\* stream after the call. StreamHandler.emit catches an exception raised
\* while formatting or writing (fails) and calls handleError, which writes no
\* log line; format itself has no fallback. Each line is kept with the span
\* that was current when the call was made.
logger_log(lines, levelname, message, w, fails) ==
    IF levelno(levelname) < logger_level THEN lines
    ELSE IF fails THEN lines
    ELSE Append(lines, [line |-> JSONFormatter_format(levelname, message, w),
                        current |-> get_current_span(w)])

\* ------------------------------------------------------------ responses
jsonify(body) == [status |-> 200, mimetype |-> "application/json", body |-> body]
html(body) == [status |-> 200, mimetype |-> "text/html", body |-> body]
with_status(resp, code) == [resp EXCEPT !.status = code]
\* werkzeug's response for an HTTPException
http_exception(code, name) == [status |-> code, mimetype |-> "text/html", body |-> name]

\* the url map built by the @app.route decorators (methods default to GET,
\* to which Flask adds HEAD and the automatic OPTIONS response)
url_match(p, m) ==
    IF p \notin Routes THEN "NotFound"
    ELSE IF m = "OPTIONS" THEN "AutomaticOptions"
    ELSE IF m \notin {"GET", "HEAD"} THEN "MethodNotAllowed"
    ELSE CASE p = "/" -> "home"
           [] p = "/api/data" -> "get_data"
           [] p = "/api/slow" -> "slow_endpoint"
           [] p = "/api/error" -> "error_endpoint"
           [] p = "/health" -> "health"

\* (mutant of Runnable) a sleeping request holds up every thread
Runnable_global(r) == \A q \in Requests : pc[q] = "sleeping" => now >= sleepUntil[q]

\* time.sleep blocks the calling thread only
Runnable(r) == \A q \in {r} : pc[q] = "sleeping" => now >= sleepUntil[q]

span_call(span, op, arg) == [span |-> span, op |-> op, arg |-> arg]

\* ------------------------------------------------------------- actions
\* if __name__ == '__main__': the startup log, then app.run
main ==
    /\ ~started
    /\ \E fails \in FailInputs :
          logs' = [logs EXCEPT ![0] =
                     logger_log(@, "INFO", "Server starting on port 8081", MainThread, fails)]
    /\ logCalls' = [logCalls EXCEPT ![0] = @ + 1]
    /\ started' = TRUE
    /\ UNCHANGED <<scenario, now, sdk, instrumented, pc, method, path, worker, cv_request,
                   cv_span, start_time, response, returned, sleepUntil,
                   counterObs, histObs, spanOps, events, hist>>

\* time passes; the clock counts from the start of the process
Tick ==
    /\ started
    /\ now < MaxTime
    /\ now' = now + 1
    /\ UNCHANGED <<scenario, started, sdk, instrumented, pc, method, path,
                   worker, cv_request, cv_span, start_time, response, returned,
                   sleepUntil, logs, logCalls, counterObs, histObs, spanOps,
                   events, hist>>

\* the host server hands request r to a free thread w (the first free one:
\* threads are interchangeable), which pushes the request context (and, when
\* instrumented, starts the server span)
accept(r, w) ==
    /\ started
    /\ pc[r] = "idle"
    /\ r <= ReqLimit
    /\ \A q \in 1..(r - 1) : pc[q] # "idle"
    /\ cv_request[w] = NoRequest
    /\ \A v \in 1..(w - 1) : cv_request[v] # NoRequest
    /\ \E m \in MethodInputs, p \in Paths :
          /\ method' = [method EXCEPT ![r] = m]
          /\ path' = [path EXCEPT ![r] = p]
    /\ IF instrumented
       THEN \E c \in ServerContextInputs :
               cv_span' = [cv_span EXCEPT ![w] = << [kind |-> "server", ctx |-> c] >>]
       ELSE cv_span' = [cv_span EXCEPT ![w] = <<>>]
    /\ cv_request' = [cv_request EXCEPT ![w] = r]
    /\ worker' = [worker EXCEPT ![r] = w]
    /\ pc' = [pc EXCEPT ![r] = "pre"]
    /\ UNCHANGED <<scenario, now, started, sdk, instrumented, start_time, response,
                   returned, sleepUntil, logs, logCalls, counterObs, histObs,
                   spanOps, events, hist>>

\* (mutant of before_request) the hook does not store the start time
before_request_no_store(r) ==
    /\ pc[r] = "pre"
    /\ events' = [events EXCEPT ![r] = Append(@, "before_request")]
    /\ pc' = [pc EXCEPT ![r] = "dispatch"]
    /\ UNCHANGED <<scenario, now, started, sdk, instrumented, method, path,
                   worker, cv_request, cv_span, start_time, response, returned,
                   sleepUntil, logs, logCalls, counterObs, histObs, spanOps,
                   hist>>

\* @app.before_request
before_request(r) ==
    /\ pc[r] = "pre"
    /\ Runnable(r)
    /\ LET target == request(worker[r])
       IN  /\ start_time' = [start_time EXCEPT ![target] = now]
           /\ hist' = [hist EXCEPT ![r].preAt = now,
                                   ![target].writes = @ + 1]
    /\ events' = [events EXCEPT ![r] = Append(@, "before_request")]
    /\ pc' = [pc EXCEPT ![r] = "dispatch"]
    /\ UNCHANGED <<scenario, now, started, sdk, instrumented, method, path, worker,
                   cv_request, cv_span, response, returned, sleepUntil, logs,
                   logCalls, counterObs, histObs, spanOps>>


\* @app.route('/')
home(r) ==
    /\ pc[r] = "dispatch"
    /\ Runnable(r)
    /\ url_match(path[r], method[r]) = "home"
    /\ LET w == worker[r]
           span == get_current_span(w)
       IN  /\ spanOps' = [spanOps EXCEPT ![r] =
                            Append(@, span_call(span, "add_event", "Rendering home page"))]
           /\ \E fails \in FailInputs :
                 logs' = [logs EXCEPT ![r] =
                            logger_log(@, "INFO", "Home page requested", w, fails)]
    /\ logCalls' = [logCalls EXCEPT ![r] = @ + 1]
    /\ response' = [response EXCEPT ![r] = html("home.html")]
    /\ events' = [events EXCEPT ![r] = Append(@, "home")]
    /\ pc' = [pc EXCEPT ![r] = "post"]
    /\ UNCHANGED <<scenario, now, started, sdk, instrumented, method, path, worker,
                   cv_request, cv_span, start_time, returned, sleepUntil,
                   counterObs, histObs, hist>>

\* tracer.start_span: the SDK tracer creates a span in the parent's trace (a
\* new trace without a valid parent); the API's no-op tracer returns a
\* non-recording span that carries the parent's context
start_span(name, parent, t, s) ==
    IF sdk
    THEN [kind |-> name,
          ctx |-> [trace_id |-> IF is_valid(parent.ctx) THEN parent.ctx.trace_id ELSE t,
                   span_id |-> s]]
    ELSE [kind |-> name, ctx |-> parent.ctx]

\* (mutant of exit_span) the span stays current after the block
exit_span_leak(stack) == stack

\* leaving the with block: the span made current on entry is ended and the
\* context of the entry restored
exit_span(stack) == SubSeq(stack, 1, Len(stack) - 1)

\* range(a, b)
range(a, b) == [i \in 1..(b - a) |-> a + i - 1]

\* random.random() * 100 for random.random() = k/RandDenom, as a fraction
random_times_100(k) == [num |-> k * 100, den |-> RandDenom]

\* (mutant of trace_payload) the identifiers are formatted without padding
trace_payload_unpadded(ctx) ==
    [traceId |-> format(ctx.trace_id, 0), spanId |-> format(ctx.span_id, 0)]

\* the 'trace' member of the payload of /api/data
trace_payload(ctx) ==
    [traceId |-> format(ctx.trace_id, 32), spanId |-> format(ctx.span_id, 16)]

\* the items comprehension of /api/data
data_items(draw) ==
    LET ids == range(1, 4)
    IN  [j \in 1..Len(ids) |->
           [id |-> ids[j], name |-> <<"Item", ids[j]>>, value |-> random_times_100(draw[j])]]

\* @app.route('/api/data'): entering the with block
get_data_enter(r) ==
    /\ pc[r] = "dispatch"
    /\ Runnable(r)
    /\ url_match(path[r], method[r]) = "get_data"
    /\ LET w == worker[r]
       IN  /\ \E t \in TraceIdInputs, s \in SpanIdInputs :
                 cv_span' = [cv_span EXCEPT ![w] =
                     Append(@, start_span("process_data", get_current_span(w), t, s))]
           /\ hist' = [hist EXCEPT ![r].entrySpans = cv_span[w]]
    /\ events' = [events EXCEPT ![r] = Append(@, "get_data")]
    /\ pc' = [pc EXCEPT ![r] = "data_body"]
    /\ UNCHANGED <<scenario, now, started, sdk, instrumented, method, path, worker,
                   cv_request, start_time, response, returned, sleepUntil, logs,
                   logCalls, counterObs, histObs, spanOps>>

\* the body of the with block
get_data_body(r) ==
    /\ pc[r] = "data_body"
    /\ Runnable(r)
    /\ LET w == worker[r]
           span == get_current_span(w)
       IN  \E draw \in DrawInputs, fails \in FailInputs :
              LET data == [timestamp |-> now,
                           items |-> data_items(draw),
                           trace |-> trace_payload(span.ctx)]
              IN  /\ spanOps' = [spanOps EXCEPT ![r] =
                        @ \o << span_call(span, "add_event", "Fetching data"),
                                span_call(span, "set_attribute",
                                          <<"data.items", Len(data.items)>>) >>]
                  /\ logs' = [logs EXCEPT ![r] =
                        logger_log(@, "INFO",
                                   <<"Data fetched successfully, itemCount=", Len(data.items)>>,
                                   w, fails)]
                  /\ response' = [response EXCEPT ![r] = jsonify(data)]
    /\ logCalls' = [logCalls EXCEPT ![r] = @ + 1]
    /\ pc' = [pc EXCEPT ![r] = "data_exit"]
    /\ UNCHANGED <<scenario, now, started, sdk, instrumented, method, path, worker,
                   cv_request, cv_span, start_time, returned, sleepUntil,
                   counterObs, histObs, events, hist>>

\* leaving the with block on return
get_data_exit(r) ==
    /\ pc[r] = "data_exit"
    /\ Runnable(r)
    /\ LET w == worker[r]
       IN  /\ spanOps' = [spanOps EXCEPT ![r] =
                            Append(@, span_call(get_current_span(w), "end", "process_data"))]
           /\ cv_span' = [cv_span EXCEPT ![w] = exit_span(@)]
    /\ pc' = [pc EXCEPT ![r] = "post"]
    /\ UNCHANGED <<scenario, now, started, sdk, instrumented, method, path, worker,
                   cv_request, start_time, response, returned, sleepUntil, logs,
                   logCalls, counterObs, histObs, events, hist>>


\* time.sleep(2)
SleepSeconds == 2

\* @app.route('/api/slow'): up to and including the call of time.sleep
slow_endpoint_sleep(r) ==
    /\ pc[r] = "dispatch"
    /\ Runnable(r)
    /\ url_match(path[r], method[r]) = "slow_endpoint"
    /\ LET w == worker[r]
           span == get_current_span(w)
       IN  /\ spanOps' = [spanOps EXCEPT ![r] =
                            Append(@, span_call(span, "add_event", "Simulating slow operation"))]
           /\ \E fails \in FailInputs :
                 logs' = [logs EXCEPT ![r] =
                    logger_log(@, "WARNING", "Slow endpoint called, expectedDelay=2s", w, fails)]
    /\ logCalls' = [logCalls EXCEPT ![r] = @ + 1]
    /\ sleepUntil' = [sleepUntil EXCEPT ![r] = now + SleepSeconds]
    /\ events' = [events EXCEPT ![r] = Append(@, "slow_endpoint")]
    /\ pc' = [pc EXCEPT ![r] = "sleeping"]
    /\ UNCHANGED <<scenario, now, started, sdk, instrumented, method, path, worker,
                   cv_request, cv_span, start_time, response, returned,
                   counterObs, histObs, hist>>

\* time.sleep has returned: the rest of slow_endpoint
slow_endpoint_return(r) ==
    /\ pc[r] = "sleeping"
    /\ Runnable(r)
    /\ response' = [response EXCEPT ![r] =
                      jsonify([message |-> "This was a slow request",
                               duration |-> "2 seconds"])]
    /\ pc' = [pc EXCEPT ![r] = "post"]
    /\ UNCHANGED <<scenario, now, started, sdk, instrumented, method, path, worker,
                   cv_request, cv_span, start_time, returned, sleepUntil, logs,
                   logCalls, counterObs, histObs, spanOps, events, hist>>

\* raise ValueError("Simulated error")
simulated_error == [type |-> "ValueError", message |-> "Simulated error"]

\* (mutant of error_except) the clause names another exception type
error_except_other(e) == e.type = "KeyError"

\* except ValueError as e
error_except(e) == e.type = "ValueError"

\* Flask's answer to an exception no handler caught
InternalServerError == http_exception(500, "Internal Server Error")

\* @app.route('/api/error')
error_endpoint(r) ==
    /\ pc[r] = "dispatch"
    /\ Runnable(r)
    /\ url_match(path[r], method[r]) = "error_endpoint"
    /\ LET w == worker[r]
           span == get_current_span(w)
           e == simulated_error
       IN  /\ \E fails \in FailInputs :
                 logs' = [logs EXCEPT ![r] =
                            logger_log(@, "ERROR", "Error endpoint called", w, fails)]
           /\ IF error_except(e)
              THEN /\ spanOps' = [spanOps EXCEPT ![r] =
                         @ \o << span_call(span, "add_event", "Error occurred"),
                                 span_call(span, "record_exception", e),
                                 span_call(span, "set_status",
                                           [status_code |-> "ERROR",
                                            description |-> "Simulated error"]) >>]
                   /\ response' = [response EXCEPT ![r] =
                         with_status(jsonify([error |-> "Internal Server Error",
                                              message |-> "This is a simulated error"]),
                                     500)]
                   /\ hist' = hist
              ELSE /\ spanOps' = [spanOps EXCEPT ![r] =
                         Append(@, span_call(span, "add_event", "Error occurred"))]
                   /\ response' = [response EXCEPT ![r] = InternalServerError]
                   /\ hist' = [hist EXCEPT ![r].unhandled = TRUE]
    /\ logCalls' = [logCalls EXCEPT ![r] = @ + 1]
    /\ events' = [events EXCEPT ![r] = Append(@, "error_endpoint")]
    /\ pc' = [pc EXCEPT ![r] = "post"]
    /\ UNCHANGED <<scenario, now, started, sdk, instrumented, method, path, worker,
                   cv_request, cv_span, start_time, returned, sleepUntil,
                   counterObs, histObs>>

\* @app.route('/health')
health(r) ==
    /\ pc[r] = "dispatch"
    /\ Runnable(r)
    /\ url_match(path[r], method[r]) = "health"
    /\ response' = [response EXCEPT ![r] =
                      jsonify([status |-> "healthy", timestamp |-> now])]
    /\ events' = [events EXCEPT ![r] = Append(@, "health")]
    /\ pc' = [pc EXCEPT ![r] = "post"]
    /\ UNCHANGED <<scenario, now, started, sdk, instrumented, method, path, worker,
                   cv_request, cv_span, start_time, returned, sleepUntil, logs,
                   logCalls, counterObs, histObs, spanOps, hist>>

\* no rule of the url map matches: Flask raises the routing exception in
\* dispatch_request and turns it into the response; no view function runs
routing_exception(r) ==
    /\ pc[r] = "dispatch"
    /\ Runnable(r)
    /\ LET m == url_match(path[r], method[r])
       IN  /\ m \in {"NotFound", "MethodNotAllowed"}
           /\ response' = [response EXCEPT ![r] =
                 IF m = "NotFound" THEN http_exception(404, "Not Found")
                 ELSE http_exception(405, "Method Not Allowed")]
    /\ pc' = [pc EXCEPT ![r] = "post"]
    /\ UNCHANGED <<scenario, now, started, sdk, instrumented, method, path, worker,
                   cv_request, cv_span, start_time, returned, sleepUntil, logs,
                   logCalls, counterObs, histObs, spanOps, events, hist>>

\* (mutant of process_response) the hook is skipped for error responses
process_response_ok_only(resp) ==
    IF resp.status >= 400 THEN {} ELSE {"after_request"}

\* OPTIONS on a route: Flask answers with its default options response; no
\* view function runs
automatic_options(r) ==
    /\ pc[r] = "dispatch"
    /\ Runnable(r)
    /\ url_match(path[r], method[r]) = "AutomaticOptions"
    /\ response' = [response EXCEPT ![r] = html("")]
    /\ pc' = [pc EXCEPT ![r] = "post"]
    /\ UNCHANGED <<scenario, now, started, sdk, instrumented, method, path,
                   worker, cv_request, cv_span, start_time, returned, sleepUntil,
                   logs, logCalls, counterObs, histObs, spanOps, events, hist>>

\* @app.after_request registers the hook among the functions Flask's
\* process_response runs on every response, whatever its status
process_response(resp) == {"after_request"}

\* (mutant of counter_attributes) the route is the matched rule's endpoint,
\* not the raw path
counter_attributes_endpoint(q, resp) ==
    [method |-> method[q], route |-> url_match(path[q], method[q]),
     status |-> resp.status]

\* the attributes of request_counter.add
counter_attributes(q, resp) ==
    [method |-> method[q], route |-> path[q], status |-> resp.status]

\* the attributes of request_duration.record
duration_attributes(q, resp) ==
    [method |-> method[q], route |-> path[q], status |-> resp.status]

\* @app.after_request. Reading an attribute that was never set raises
\* AttributeError, which Flask answers with its 500 response.
after_request(r) ==
    /\ pc[r] = "post"
    /\ Runnable(r)
    /\ LET w == worker[r]
           q == request(w)
           resp == response[r]
       IN  IF "after_request" \notin process_response(resp)
           THEN /\ returned' = [returned EXCEPT ![r] = resp]
                /\ UNCHANGED <<counterObs, histObs, response>>
                /\ hist' = [hist EXCEPT ![r].postSpans = cv_span[w]]
           ELSE IF start_time[q] = NoTime
           THEN /\ response' = [response EXCEPT ![r] = InternalServerError]
                /\ returned' = [returned EXCEPT ![r] = InternalServerError]
                /\ UNCHANGED <<counterObs, histObs>>
                /\ hist' = [hist EXCEPT ![r].postSpans = cv_span[w],
                                        ![r].postAt = now,
                                        ![r].unsetRead = TRUE,
                                        ![q].reads = @ + 1]
           ELSE LET duration == now - start_time[q]
                IN  /\ counterObs' = [counterObs EXCEPT ![r] =
                          Append(@, [value |-> 1, attributes |-> counter_attributes(q, resp)])]
                    /\ histObs' = [histObs EXCEPT ![r] =
                          Append(@, [value |-> duration,
                                     attributes |-> duration_attributes(q, resp)])]
                    /\ returned' = [returned EXCEPT ![r] = resp]
                    /\ UNCHANGED response
                    /\ hist' = [hist EXCEPT ![r].postSpans = cv_span[w],
                                            ![r].postAt = now,
                                            ![q].reads = @ + 1]
    /\ events' = [events EXCEPT ![r] = Append(@, "after_request")]
    /\ pc' = [pc EXCEPT ![r] = "send"]
    /\ UNCHANGED <<scenario, now, started, sdk, instrumented, method, path, worker,
                   cv_request, cv_span, start_time, sleepUntil, logs, logCalls,
                   spanOps>>

\* the response goes to the client; the request context is popped and the
\* thread is free again
send_response(r) ==
    /\ pc[r] = "send"
    /\ Runnable(r)
    /\ LET w == worker[r]
       IN  /\ cv_request' = [cv_request EXCEPT ![w] = NoRequest]
           /\ cv_span' = [cv_span EXCEPT ![w] = <<>>]
    /\ events' = [events EXCEPT ![r] = Append(@, "response")]
    /\ pc' = [pc EXCEPT ![r] = "done"]
    /\ UNCHANGED <<scenario, now, started, sdk, instrumented, method, path, worker,
                   start_time, response, returned, sleepUntil, logs, logCalls,
                   counterObs, histObs, spanOps, hist>>

Next ==
    \/ main
    \/ Tick
    \/ \E r \in Requests, w \in WorkerIds : accept(r, w)
    \/ \E r \in Requests : before_request(r)
    \/ \E r \in Requests : home(r)
    \/ \E r \in Requests : get_data_enter(r)
    \/ \E r \in Requests : get_data_body(r)
    \/ \E r \in Requests : get_data_exit(r)
    \/ \E r \in Requests : slow_endpoint_sleep(r)
    \/ \E r \in Requests : slow_endpoint_return(r)
    \/ \E r \in Requests : error_endpoint(r)
    \/ \E r \in Requests : health(r)
    \/ \E r \in Requests : routing_exception(r)
    \/ \E r \in Requests : automatic_options(r)
    \/ \E r \in Requests : after_request(r)
    \/ \E r \in Requests : send_response(r)

Spec == Init /\ [][Next]_vars


\* ------------------------------------------------------------- reading
\* the value of a member of a log line (a sequence of <<key, value>>)
HasKey(line, key) == \E i \in 1..Len(line) : line[i][1] = key
Member(line, key) == line[CHOOSE i \in 1..Len(line) : line[i][1] = key][2]

IsLowerHex(str) == \A i \in 1..Len(str) : \E d \in 1..16 : LowerHex[d] = str[i]

\* the natural number a hex string denotes, as limbs
HexValue(c) == (CHOOSE d \in 1..16 : LowerHex[d] = c) - 1
RECURSIVE StripZeros(_)
StripZeros(str) ==
    IF str # <<>> /\ Head(str) = "0" THEN StripZeros(Tail(str)) ELSE str
RECURSIVE GroupValue(_)
GroupValue(str) ==
    IF str = <<>> THEN 0
    ELSE GroupValue(SubSeq(str, 1, Len(str) - 1)) * 16 + HexValue(str[Len(str)])
RECURSIVE LimbsOf(_)
LimbsOf(str) ==
    IF str = <<>> THEN <<>>
    ELSE IF Len(str) <= 4 THEN <<GroupValue(str)>>
    ELSE Append(LimbsOf(SubSeq(str, 1, Len(str) - 4)),
                GroupValue(SubSeq(str, Len(str) - 3, Len(str))))
ParseHex(str) == LimbsOf(StripZeros(str))

Completed(r) == pc[r] = "done"
Routed(r, endpoint) == pc[r] # "idle" /\ url_match(path[r], method[r]) = endpoint
HandlerNames == {"home", "get_data", "slow_endpoint", "error_endpoint", "health"}

\* ---------------------------------------------------------------- C1
\* C1: once a request has completed, whatever its path and method, exactly
\* one counter increment of value 1 and exactly one duration observation
\* were emitted for it, both tagged with the request's method, its raw path
\* and the status of the response that was returned; no request ever has
\* more than one of either.
C1_OneObservationEachTaggedAlike ==
    \A r \in Requests :
        /\ Len(counterObs[r]) <= 1 /\ Len(histObs[r]) <= 1
        /\ Completed(r) =>
              /\ Len(counterObs[r]) = 1 /\ Len(histObs[r]) = 1
              /\ counterObs[r][1].value = 1
              /\ counterObs[r][1].attributes = histObs[r][1].attributes
              /\ counterObs[r][1].attributes =
                    [method |-> method[r], route |-> path[r],
                     status |-> returned[r].status]

\* a POST to a path no route matches has completed with its observations
C1_Witness ==
    \E r \in Requests :
        /\ Completed(r) /\ method[r] = "POST" /\ path[r] = "/missing"
        /\ returned[r].status = 404
        /\ Len(counterObs[r]) = 1 /\ Len(histObs[r]) = 1

\* ---------------------------------------------------------------- C2
\* C2: the post-dispatch hook has run for every request that reached its
\* response, whichever handler ran and also when routing raised or the
\* response is an error response (status >= 400): such a request has its
\* counter increment and its duration observation.
C2_HookRunsForErrorResponses ==
    \A r \in Requests :
        pc[r] \in {"send", "done"} =>
            /\ events[r][Len(events[r]) - (IF pc[r] = "done" THEN 1 ELSE 0)] = "after_request"
            /\ returned[r].status >= 400 =>
                  Len(counterObs[r]) = 1 /\ Len(histObs[r]) = 1

\* the 500 of /api/error has been sent and its metrics are there
C2_Witness ==
    \E r \in Requests :
        /\ Completed(r) /\ Routed(r, "error_endpoint")
        /\ returned[r].status = 500
        /\ Len(counterObs[r]) = 1 /\ Len(histObs[r]) = 1

\* ---------------------------------------------------------------- C3
\* C3: a log line carries trace.id and span.id if and only if the span that
\* was current when the logger was called has a valid context, and then the
\* two members denote that span's trace id and span id; a line written with
\* no valid current span (the startup log) has neither member.
C3_LogIdsIffValidSpan ==
    \A r \in 0..MaxReq : \A i \in 1..Len(logs[r]) :
        LET line == logs[r][i].line
            ctx == logs[r][i].current.ctx
        IN  /\ HasKey(line, "trace.id") <=> is_valid(ctx)
            /\ HasKey(line, "span.id") <=> is_valid(ctx)
            /\ is_valid(ctx) =>
                  /\ ParseHex(Member(line, "trace.id")) = ctx.trace_id
                  /\ ParseHex(Member(line, "span.id")) = ctx.span_id

\* the startup line without the members, a handler line with them and a
\* handler line written under an invalid current span
C3_Witness ==
    /\ Len(logs[0]) = 1 /\ ~HasKey(logs[0][1].line, "trace.id")
    /\ \E r \in Requests :
          /\ Len(logs[r]) = 1
          /\ HasKey(logs[r][1].line, "trace.id")
          /\ HasKey(logs[r][1].line, "span.id")
          /\ logs[r][1].current.ctx.trace_id = MaxTraceId

C3_WitnessInvalid ==
    \E r \in Requests :
        /\ Len(logs[r]) = 1
        /\ ~is_valid(logs[r][1].current.ctx)
        /\ ~HasKey(logs[r][1].line, "span.id")


\* ---------------------------------------------------------------- C4
\* C4: every GET /api/error ends the same way. The simulated fault never
\* leaves the handler; when the response exists, the handler has called
\* record_exception with the fault and set_status(ERROR, "Simulated error")
\* on the span that was current; the response has status 500 and the body
\* {error: "Internal Server Error", message: "This is a simulated error"},
\* and that is what the client receives.
C4_ErrorBody ==
    [error |-> "Internal Server Error", message |-> "This is a simulated error"]

C4_SimulatedErrorCaughtAnd500 ==
    \A r \in Requests :
        Routed(r, "error_endpoint") /\ pc[r] \in {"post", "send", "done"} =>
            /\ ~hist[r].unhandled
            /\ response[r] = [status |-> 500, mimetype |-> "application/json",
                              body |-> C4_ErrorBody]
            /\ \E i, j \in 1..Len(spanOps[r]) :
                  /\ i < j
                  /\ spanOps[r][i].op = "record_exception"
                  /\ spanOps[r][i].arg = simulated_error
                  /\ spanOps[r][j].op = "set_status"
                  /\ spanOps[r][j].arg = [status_code |-> "ERROR",
                                          description |-> "Simulated error"]
                  /\ spanOps[r][i].span = spanOps[r][j].span
                  /\ pc[r] # "done" =>
                        spanOps[r][i].span = get_current_span(worker[r])
            /\ pc[r] \in {"send", "done"} => returned[r] = response[r]

\* a GET /api/error under a valid server span has been answered
C4_Witness ==
    \E r \in Requests :
        /\ Completed(r) /\ Routed(r, "error_endpoint")
        /\ returned[r].status = 500 /\ returned[r].body = C4_ErrorBody
        /\ \E i \in 1..Len(spanOps[r]) :
              /\ spanOps[r][i].op = "set_status"
              /\ is_valid(spanOps[r][i].span.ctx)

\* ---------------------------------------------------------------- C5
\* C5: GET /api/data answers 200 with exactly 3 items whose ids are 1, 2, 3
\* in that order and whose values lie in [0, 100); the payload's traceId is
\* exactly 32 and its spanId exactly 16 lowercase hex characters, for every
\* id of the span (the all-zero ids of an invalid context included); and
\* set_attribute("data.items", 3) was called on the span.
C5_DataPayloadShape ==
    \A r \in Requests :
        Routed(r, "get_data") /\ pc[r] \in {"data_exit", "post", "send", "done"} =>
            LET body == response[r].body
            IN  /\ response[r].status = 200
                /\ Len(body.items) = 3
                /\ \A j \in 1..3 :
                      /\ body.items[j].id = j
                      /\ body.items[j].value.num >= 0
                      /\ body.items[j].value.num < 100 * body.items[j].value.den
                /\ Len(body.trace.traceId) = 32 /\ IsLowerHex(body.trace.traceId)
                /\ Len(body.trace.spanId) = 16 /\ IsLowerHex(body.trace.spanId)
                /\ \E i \in 1..Len(spanOps[r]) :
                      /\ spanOps[r][i].op = "set_attribute"
                      /\ spanOps[r][i].arg = <<"data.items", 3>>
                /\ pc[r] \in {"send", "done"} => returned[r] = response[r]

\* an answered GET /api/data whose span context is invalid (all-zero ids)
\* and one whose ids are the largest
C5_Witness ==
    \E r \in Requests :
        /\ Completed(r) /\ Routed(r, "get_data")
        /\ returned[r].status = 200
        /\ returned[r].body.trace.traceId = [i \in 1..32 |-> "0"]
        /\ returned[r].body.trace.spanId = [i \in 1..16 |-> "0"]

C5_WitnessMaxIds ==
    \E r \in Requests :
        /\ Completed(r) /\ Routed(r, "get_data")
        /\ returned[r].body.trace.traceId = [i \in 1..32 |-> "f"]
        /\ returned[r].body.trace.spanId = [i \in 1..16 |-> "f"]
        /\ \E j \in 1..3 : returned[r].body.items[j].value.num > 0

\* ---------------------------------------------------------------- C6
\* the steps of request q after it was accepted
RequestStep(q) ==
    \/ before_request(q) \/ home(q) \/ get_data_enter(q) \/ get_data_body(q)
    \/ get_data_exit(q) \/ slow_endpoint_sleep(q) \/ slow_endpoint_return(q)
    \/ error_endpoint(q) \/ health(q) \/ routing_exception(q)
    \/ automatic_options(q) \/ after_request(q) \/ send_response(q)

Sleeping(r) == pc[r] = "sleeping" /\ now < sleepUntil[r]

\* C6: with at least two threads, while a GET /api/slow is blocked in its
\* delay every other request in flight can take its next step (pre-dispatch,
\* handler, post-dispatch, response) at once, and a request not yet accepted
\* can be accepted when a thread is free; the slow request gets its answer
\* 200 {message: "This was a slow request", duration: "2 seconds"} only when
\* SleepSeconds have passed since it went to sleep.
C6_SlowDoesNotBlockOthers ==
    /\ \A r \in Requests : Sleeping(r) =>
          \A q \in Requests \ {r} :
              /\ pc[q] \notin {"idle", "done", "sleeping"} => ENABLED RequestStep(q)
              /\ ( /\ pc[q] = "idle" /\ q <= ReqLimit
                   /\ \A p \in 1..(q - 1) : pc[p] # "idle"
                   /\ \E w \in WorkerIds : cv_request[w] = NoRequest )
                 => ENABLED (\E w \in WorkerIds : accept(q, w))
    /\ \A r \in Requests :
          Routed(r, "slow_endpoint") =>
              /\ pc[r] \in {"dispatch", "sleeping"} => response[r] = NoResponse
              /\ pc[r] \in {"post", "send", "done"} =>
                    /\ response[r] = jsonify([message |-> "This was a slow request",
                                              duration |-> "2 seconds"])
                    /\ now >= sleepUntil[r]
                    /\ sleepUntil[r] >= hist[r].preAt + SleepSeconds
              /\ Completed(r) =>
                    /\ returned[r] = response[r]
                    /\ histObs[r][1].value >= SleepSeconds

\* a request went through its whole lifecycle, metrics included, while an
\* earlier GET /api/slow was (and still is) blocked in its delay
C6_Witness ==
    \E r, q \in Requests :
        /\ r # q
        /\ Sleeping(r)
        /\ Completed(q)
        /\ hist[q].preAt > sleepUntil[r] - SleepSeconds
        /\ Len(counterObs[q]) = 1 /\ Len(histObs[q]) = 1


\* ---------------------------------------------------------------- C7
\* C7: a failure inside the log emitter degrades gracefully: every logger
\* call still leaves a (best-effort) line in the log stream, and the request
\* goes on to its normal response and its metrics.
C7_EveryLogCallLeavesALine ==
    \A r \in Requests :
        Completed(r) =>
            /\ Len(logs[r]) = logCalls[r]
            /\ Len(counterObs[r]) = 1 /\ Len(histObs[r]) = 1

\* the part of C7 the program does satisfy: a logger call that failed leaves
\* no line, and the request still ends with the handler's response and with
\* its metrics
C7_FailedLogCallDoesNotAbortRequest ==
    \A r \in Requests :
        Completed(r) /\ Len(logs[r]) < logCalls[r] =>
            /\ Routed(r, "home") => returned[r] = html("home.html")
            /\ Routed(r, "get_data") => returned[r].status = 200
            /\ Routed(r, "slow_endpoint") => returned[r].status = 200
            /\ Routed(r, "error_endpoint") => returned[r].body = C4_ErrorBody
            /\ Len(counterObs[r]) = 1 /\ Len(histObs[r]) = 1

C7_FailedLogCallReached ==
    \E r \in Requests : Completed(r) /\ logCalls[r] = 1 /\ logs[r] = <<>>

\* ---------------------------------------------------------------- C8
\* the lifecycle of a request whose handler is h (<<>>: no handler runs)
Lifecycle(h) == <<"before_request">> \o h \o <<"after_request", "response">>
IsPrefix(a, b) == Len(a) <= Len(b) /\ a = SubSeq(b, 1, Len(a))
HandlerOf(r) ==
    IF url_match(path[r], method[r]) \in HandlerNames
    THEN <<url_match(path[r], method[r])>> ELSE <<>>

\* C8 as claimed: every request runs pre-dispatch hook, exactly one route
\* handler, post-dispatch hook, response, in this order.
C8_ExactlyOneHandlerEveryRequest ==
    \A r \in Requests :
        /\ \E h \in HandlerNames : IsPrefix(events[r], Lifecycle(<<h>>))
        /\ Completed(r) => \E h \in HandlerNames : events[r] = Lifecycle(<<h>>)

\* C8 (amended): the steps of every request are, in this order, the
\* pre-dispatch hook, the route handler the url map gives the request (one
\* handler when path and method match a route, none when Flask answers the
\* request itself: 404, 405, the automatic OPTIONS response), the
\* post-dispatch hook and the response. No handler
\* starts before the start time is stored, the metrics are recorded only
\* when the response of the handler exists, the client receives that
\* response unmodified and only after the metrics were recorded, and no
\* second handler ever runs.
C8_LifecycleOrder ==
    \A r \in Requests :
        /\ IsPrefix(events[r], Lifecycle(HandlerOf(r)))
        /\ Completed(r) <=> events[r] = Lifecycle(HandlerOf(r))
        /\ Cardinality({i \in 1..Len(events[r]) : events[r][i] \in HandlerNames}) <= 1
        /\ (\E i \in 1..Len(events[r]) : events[r][i] \in HandlerNames) =>
              start_time[r] # NoTime
        /\ (response[r] # NoResponse \/ pc[r] \in {"data_body", "sleeping"}) =>
              start_time[r] # NoTime
        /\ (counterObs[r] # <<>> \/ histObs[r] # <<>>) =>
              /\ response[r] # NoResponse
              /\ \E i \in 1..Len(events[r]) : events[r][i] = "after_request"
        /\ returned[r] # NoResponse =>
              /\ returned[r] = response[r]
              /\ Len(counterObs[r]) = 1 /\ Len(histObs[r]) = 1

\* a routed request and a request no route matches have both completed
C8_Witness ==
    \E r, q \in Requests :
        /\ Completed(r) /\ events[r] = Lifecycle(<<"health">>)
        /\ Completed(q) /\ events[q] = Lifecycle(<<>>)
        /\ returned[q].status = 404

\* ---------------------------------------------------------------- C9
\* C9: under every interleaving of concurrent requests the start time of a
\* request is written once (at its pre-dispatch) and read once (at its
\* post-dispatch); the duration recorded for a request is the time of its
\* own post-dispatch minus the time of its own pre-dispatch; and the
\* post-dispatch hook never reads a start time that was not set.
C9_TimingStatePerRequest ==
    \A r \in Requests :
        /\ hist[r].writes <= 1 /\ hist[r].reads <= 1
        /\ ~hist[r].unsetRead
        /\ pc[r] \in {"idle", "pre"} => hist[r].writes = 0 /\ start_time[r] = NoTime
        /\ pc[r] \notin {"idle", "pre"} =>
              hist[r].writes = 1 /\ start_time[r] = hist[r].preAt
        /\ pc[r] \in {"send", "done"} <=> hist[r].reads = 1
        /\ pc[r] \in {"send", "done"} =>
              /\ Len(histObs[r]) = 1
              /\ histObs[r][1].value = hist[r].postAt - hist[r].preAt

\* two requests overlapped (the second began before the first ended, at a
\* later time) and were recorded with different durations
C9_Witness ==
    \E r, q \in Requests :
        /\ Completed(r) /\ Completed(q)
        /\ hist[r].preAt < hist[q].preAt
        /\ hist[q].preAt < hist[r].postAt
        /\ histObs[r][1].value = hist[r].postAt - hist[r].preAt
        /\ histObs[q][1].value = hist[q].postAt - hist[q].preAt
        /\ histObs[r][1].value # histObs[q][1].value

\* --------------------------------------------------------------- C10
\* C10: in GET /api/data the span process_data is current exactly for the
\* body of the handler: the event 'Fetching data', the attribute data.items
\* and the info log happen while it is current, so that with a valid
\* context the log line's trace.id and span.id are the payload's traceId
\* and spanId; when the handler has returned the span was ended and the
\* current span is again the one of the handler's entry, so the
\* post-dispatch hook runs outside process_data.
C10_ChildSpanCurrentExactlyInBody ==
    \A r \in Requests :
        Routed(r, "get_data") =>
            /\ pc[r] = "data_body" =>
                  /\ Len(cv_span[worker[r]]) = Len(hist[r].entrySpans) + 1
                  /\ exit_span(cv_span[worker[r]]) = hist[r].entrySpans
                  /\ get_current_span(worker[r]).kind = "process_data"
            /\ pc[r] \in {"data_exit", "post", "send", "done"} =>
                  LET child == spanOps[r][1].span
                  IN  /\ child.kind = "process_data"
                      /\ spanOps[r][1].op = "add_event"
                      /\ spanOps[r][1].arg = "Fetching data"
                      /\ spanOps[r][2].op = "set_attribute"
                      /\ spanOps[r][2].span = child
                      /\ pc[r] = "data_exit" => get_current_span(worker[r]) = child
                      /\ \A i \in 1..Len(logs[r]) :
                            /\ logs[r][i].current = child
                            /\ is_valid(child.ctx) =>
                                  /\ Member(logs[r][i].line, "trace.id")
                                        = response[r].body.trace.traceId
                                  /\ Member(logs[r][i].line, "span.id")
                                        = response[r].body.trace.spanId
                                  /\ ParseHex(response[r].body.trace.spanId)
                                        = child.ctx.span_id
            /\ pc[r] \in {"post", "send", "done"} =>
                  /\ Len(spanOps[r]) = 3
                  /\ spanOps[r][3].op = "end"
                  /\ spanOps[r][3].span = spanOps[r][1].span
            /\ pc[r] \in {"post", "send"} =>
                  /\ cv_span[worker[r]] = hist[r].entrySpans
                  /\ \A i \in 1..Len(cv_span[worker[r]]) :
                        cv_span[worker[r]][i].kind # "process_data"
            /\ pc[r] \in {"send", "done"} =>
                  hist[r].postSpans = hist[r].entrySpans

\* an answered GET /api/data under a valid server span: the log line was
\* written and carries the ids of the payload, which are not the server
\* span's
C10_Witness ==
    \E r \in Requests :
        /\ Completed(r) /\ Routed(r, "get_data")
        /\ Len(logs[r]) = 1
        /\ hist[r].entrySpans # <<>>
        /\ hist[r].postSpans = hist[r].entrySpans
        /\ is_valid(spanOps[r][1].span.ctx)
        /\ spanOps[r][1].span.ctx.span_id # hist[r].entrySpans[1].ctx.span_id
        /\ Member(logs[r][1].line, "span.id") = returned[r].body.trace.spanId

====
